---- MODULE Spec2Model ----
(***************************************************************************)
(* State-machine model of the attendance system: the pipeline state        *)
(* machine of run_pi.py (trigger_attendance, set_scanning_state,           *)
(* trigger_capture/capture_sequence, camera_loop, perform_recognition,     *)
(* process_attendance) and the request-side recogniser of app.py           *)
(* (recognize_face), over one attendance table and one clock.              *)
(*                                                                         *)
(* Granularity.  Every region that run_pi.py executes under state_lock     *)
(* contains writes that only lock holders perform (system_state) plus the  *)
(* clearing of last_recognition_result; the only unlocked accesses are the *)
(* camera loop's single read of system_state and its single writes of      *)
(* last_recognition_result, so each locked region is one action.  The      *)
(* database is touched by separate statements (SELECT, then INSERT+commit) *)
(* and those are separate actions, so that two deciders can interleave.    *)
(*                                                                         *)
(* Confidences are in hundredths (0.35 is 35, 0.5 is 50).  The clock is in *)
(* seconds; a calendar day is DayLen seconds long.                         *)
(***************************************************************************)
EXTENDS Integers, Sequences, FiniteSets, TLC

\* ------------------------------------------------------------------ bounds
MaxTriggers == 2      \* accepted /trigger_attendance calls in a run
MaxRequests == 2      \* /recognize_face requests in a run
NumCaptures == 2      \* capture_sequence threads that can be alive at once
NumRequests == 2      \* /recognize_face requests that can be in flight at once
HistLen == 2          \* accepted decisions of the day remembered per identity
MaxDecisions == 2     \* decisions begun in a run of interleaved deciders
MaxJobs == 2          \* train_model_background threads launched in a run
MaxFolders == 3       \* identity folders in the dataset directory
MaxSamples == 2       \* embeddings a training job is seen to collect
DayLen == 6           \* seconds per calendar day (scaled)
MaxClock == 6         \* last clock value of a run

\* ------------------------------------------------------- program constants
THRESHOLD_APP == 50   \* app.py: if conf < 0.5
THRESHOLD_PI == 35    \* run_pi.py: if confidence > 0.35

COOLDOWN_SECONDS == [success |-> 5, duplicate |-> 5, unknown |-> 3]

\* ------------------------------------------------------------------ inputs
Ids == {"S1", "S2"}
Caps == 1..NumCaptures
Reqs == 1..NumRequests
ConfsPi == {THRESHOLD_PI - 1, THRESHOLD_PI, THRESHOLD_PI + 1}
ConfsApp == {THRESHOLD_APP - 1, THRESHOLD_APP, THRESHOLD_APP + 1}
FramesPi == {"noface", "noembed", "face"}
FramesApp == {"noimage", "noface", "face"}
Days == 0..(MaxClock \div DayLen)
Keys == Ids \cup {"UNKNOWN"}
Jobs == 1..MaxJobs
Folders == 0..MaxFolders
NoTime == -1

VARIABLES
    system_state,             \* run_pi.py: "IDLE" | "ALIGNING" | "SCANNING"
    last_recognition_result,  \* run_pi.py: the polled result ({} is status "none")
    timers,                   \* pending threading.Timer(10.0, set_scanning_state)
    trig_resp,                \* response of the last /trigger_attendance call
    cam,                      \* camera_loop thread: position and locals
    clf,                      \* the classifier camera_loop loaded at start (FALSE: None)
    running,                  \* run_pi.py: main loop control flag
    exited,                   \* the process has exited (sys.exit in the main thread)
    latest_frame,             \* run_pi.py: stream buffer (FALSE: None)
    cap,                      \* capture_sequence threads: position of each
    model_file,               \* MODEL_PATH exists
    model_complete,           \* the file at MODEL_PATH holds a whole pickled model
    model_version,            \* how many models were dumped to MODEL_PATH since boot
    train_status,             \* TRAIN_STATUS_FILE: running, progress, message
    job,                      \* train_model_background threads: position and locals
    train_resp,               \* response of the last request to start training
    nStarted,                 \* history: train_model_background threads launched
    attendance,               \* attendance table: rows per (student_id, day)
    clock,                    \* wall clock, seconds
    req,                      \* /recognize_face requests: position and locals
    cooldown_tracker,         \* app.py: last feedback time per key
    last,                     \* history: the decision delivered last
    hist,                     \* history: per identity, today's accepted decisions
    nTrig,                    \* history: accepted trigger_attendance calls
    nRecog,                   \* history: perform_recognition invocations
    nReq,                     \* history: recognize_face requests received
    fb_hist                   \* history: per key, recognize_face's last feedback call

vars == <<system_state, last_recognition_result, timers, trig_resp, cam, clf,
          running, exited,
          latest_frame, cap, model_file, model_complete, model_version,
          train_status, job,
          train_resp, nStarted, attendance, clock, req,
          cooldown_tracker, last, hist, nTrig, nRecog, nReq, fb_hist>>

pipeVars == <<system_state, last_recognition_result, timers, trig_resp, nTrig>>
camVars == <<cam, latest_frame, nRecog>>
reqVars == <<req, cooldown_tracker, nReq, fb_hist>>
histVars == <<last, hist>>
procVars == <<clf, running, exited>>
trainVars == <<model_file, model_complete, model_version, train_status, job, train_resp,
               nStarted>>

\* ----------------------------------------------------------------- helpers
Day(t) == t \div DayLen

EmptyResult == [status |-> "none", student_id |-> "none"]

Result(st, sid) == [status |-> st, student_id |-> sid]

CamIdle ==
    [pc |-> "acquire", sid |-> "none", conf |-> 0, day |-> 0, existed |-> FALSE,
     trig |-> 0]

ReqIdle ==
    [pc |-> "idle", kind |-> "none", sid |-> "none", conf |-> 0, now |-> 0,
     day |-> 0, recDay |-> 0, existed |-> FALSE, queried |-> FALSE,
     inserted |-> FALSE, status |-> "none", model |-> 0]

\* One delivered decision.  site: "app" (recognize_face) or "pi" (camera loop);
\* kind: what the frame held; day: the day of the marked-today query (or of the
\* decision when nothing was queried); recDay: the day of the inserted row;
\* existed: a row for (sid, day) was in the table when it was queried;
\* fb: the feedback function called ("none" when none was).
Entry(site, kind, sid, conf, day, recDay, existed, queried, inserted, status, fb) ==
    [site |-> site, kind |-> kind, sid |-> sid, conf |-> conf, day |-> day,
     recDay |-> recDay, existed |-> existed, queried |-> queried,
     inserted |-> inserted, status |-> status, fb |-> fb]

NoDecision ==
    Entry("none", "none", "none", 0, 0, 0, FALSE, FALSE, FALSE, "none", "none")

Accepted(e) == e.status \in {"success", "duplicate"}

\* no feedback call yet.  at: the time of the key's last feedback call; soon: that
\* call came less than its kind's cooldown window after the key's call before it
NoCall == [at |-> NoTime, soon |-> FALSE]

\* what hist keeps of an accepted decision
Summary(e) == [existed |-> e.existed, status |-> e.status]

Push(h, x) == IF Len(h) < HistLen THEN Append(h, x) ELSE Append(Tail(h), x)

\* the decision e reaches its caller (the response, or the polled result); hist
\* keeps it when it is a decision of today
Deliver(e) ==
    /\ last' = e
    /\ hist' = IF Accepted(e) /\ e.recDay = Day(clock)
               THEN [hist EXCEPT ![e.sid] = Push(@, Summary(e))]
               ELSE hist

\* ------------------------------------------------------------- persistence
\* mutants of the query: one that never finds a row, one without the date filter
marked_today_never(sid, today) == FALSE

marked_today_any_day(sid, today) == \E d \in Days : attendance[<<sid, d>>] > 0

\* SELECT 1 FROM attendance WHERE student_id = :sid AND DATE(timestamp) = today
marked_today(sid, today) == attendance[<<sid, today>>] > 0

\* INSERT INTO attendance (student_id, ..., timestamp) VALUES (:sid, ..., NOW()); commit
insert_attendance(sid) ==
    attendance' = [attendance EXCEPT ![<<sid, Day(clock)>>] = @ + 1]

\* ---------------------------------------------------------------- cooldown
\* mutant of the cooldown test: the boundary is exclusive
cooldown_allows_strict(key, now, kind) ==
    \/ cooldown_tracker[key] = NoTime
    \/ now - cooldown_tracker[key] > COOLDOWN_SECONDS[kind]

\* key not in cooldown_tracker or (now - cooldown_tracker[key]) >= COOLDOWN_SECONDS[kind]
cooldown_allows(key, now, kind) ==
    \/ cooldown_tracker[key] = NoTime
    \/ now - cooldown_tracker[key] >= COOLDOWN_SECONDS[kind]

\* the feedback function a gated call site of recognize_face calls
gated_feedback(key, now, kind) ==
    IF cooldown_allows(key, now, kind) THEN kind ELSE "none"

\* mutant of the record: every key's entry is written
record_trigger_time_all_keys(key, now) ==
    cooldown_tracker' = [k \in Keys |-> now]

\* cooldown_tracker[key] = now
record_trigger_time(key, now) ==
    cooldown_tracker' = [cooldown_tracker EXCEPT ![key] = now]

\* -------------------------------------------------------------- extraction
\* mutant of the model test: the classifier is used whatever was loaded
clf_is_None_never(loaded) == FALSE

\* if clf is None, on what load_model_if_exists() returned
clf_is_None(loaded) == ~loaded

\* mutant of the embedding test: every frame is taken to hold a face
emb_is_None_never(kind) == FALSE

\* "if emb is None", "if not results.detections", "if embedding is None"
emb_is_None(kind) == kind # "face"

\* -------------------------------------------------------------- thresholds
\* mutant of the threshold test: one hundredth too low
app_accepts_low(conf) == ~(conf < THRESHOLD_APP - 1)

\* app.py: "if conf < 0.5" is the Unknown branch
app_accepts(conf) == ~(conf < THRESHOLD_APP)

\* run_pi.py: "if confidence > 0.35" is the accepted branch
pi_accepts(conf) == conf > THRESHOLD_PI

\* ------------------------------------------------ run_pi.py: state machine
\* mutant of the handler: the test of system_state is missing
trigger_attendance_unchecked ==
    /\ trig_resp = "none"
    /\ nTrig < MaxTriggers
    /\ system_state' = "ALIGNING"
    /\ last_recognition_result' = EmptyResult
    /\ timers' = timers + 1
    /\ trig_resp' = "aligning"
    /\ nTrig' = nTrig + 1
    /\ UNCHANGED <<camVars, procVars, cap, trainVars, attendance, clock, reqVars, histVars>>

\* mutant of the handler: the previous result is not cleared
trigger_attendance_keeps_result ==
    /\ trig_resp = "none"
    /\ IF system_state # "IDLE"
       THEN /\ trig_resp' = "busy"
            /\ UNCHANGED <<system_state, timers, nTrig>>
       ELSE /\ nTrig < MaxTriggers
            /\ system_state' = "ALIGNING"
            /\ timers' = timers + 1
            /\ trig_resp' = "aligning"
            /\ nTrig' = nTrig + 1
    /\ UNCHANGED <<last_recognition_result, camVars, procVars, cap, trainVars, attendance,
                   clock, reqVars, histVars>>

\* /trigger_attendance, the whole handler (it runs under state_lock)
trigger_attendance ==
    /\ trig_resp = "none"
    /\ IF system_state # "IDLE"
       THEN /\ trig_resp' = "busy"
            /\ UNCHANGED <<system_state, last_recognition_result, timers, nTrig>>
       ELSE /\ nTrig < MaxTriggers
            /\ system_state' = "ALIGNING"
            /\ last_recognition_result' = EmptyResult
            /\ timers' = timers + 1
            /\ trig_resp' = "aligning"
            /\ nTrig' = nTrig + 1
    /\ UNCHANGED <<camVars, procVars, cap, trainVars, attendance, clock, reqVars, histVars>>

\* the response of /trigger_attendance reaches the browser
trigger_returned ==
    /\ trig_resp # "none"
    /\ trig_resp' = "none"
    /\ UNCHANGED <<system_state, last_recognition_result, timers, nTrig, camVars,
                   procVars, cap, trainVars, attendance, clock, reqVars, histVars>>

\* the Timer fires: set_scanning_state
set_scanning_state ==
    /\ timers > 0
    /\ timers' = timers - 1
    /\ system_state' = "SCANNING"
    /\ UNCHANGED <<last_recognition_result, trig_resp, nTrig, camVars, procVars, cap,
                   trainVars, attendance, clock, reqVars, histVars>>

\* /trigger_capture with a student_id: starts a capture_sequence thread
trigger_capture(c) ==
    /\ cap[c] = "off"
    /\ cap' = [cap EXCEPT ![c] = "spawned"]
    /\ UNCHANGED <<pipeVars, camVars, procVars, trainVars, attendance, clock, reqVars, histVars>>

\* capture_sequence, phase 1: with state_lock: system_state = "ALIGNING"
capture_sequence_align(c) ==
    /\ cap[c] = "spawned"
    /\ system_state' = "ALIGNING"
    /\ cap' = [cap EXCEPT ![c] = "capturing"]
    /\ UNCHANGED <<last_recognition_result, timers, trig_resp, nTrig, camVars, procVars,
                   trainVars, attendance, clock, reqVars, histVars>>

\* capture_sequence, after the sleep and the 50 frames: system_state = "IDLE"
capture_sequence_idle(c) ==
    /\ cap[c] = "capturing"
    /\ system_state' = "IDLE"
    /\ cap' = [cap EXCEPT ![c] = "off"]
    /\ UNCHANGED <<last_recognition_result, timers, trig_resp, nTrig, camVars, procVars,
                   trainVars, attendance, clock, reqVars, histVars>>

\* ---------------------------------------------------- run_pi.py: lifecycle
\* shutdown_handler, on SIGINT or SIGTERM: running = False, then cleanup()
shutdown_handler ==
    /\ running
    /\ running' = FALSE
    /\ UNCHANGED <<pipeVars, camVars, clf, exited, cap, trainVars, attendance, clock,
                   reqVars, histVars>>

\* shutdown_handler: sys.exit(0) in the main thread; the interpreter exits and
\* its daemon threads (camera_loop, the request handlers) stop where they are
process_exit ==
    /\ ~running
    /\ ~exited
    /\ exited' = TRUE
    /\ UNCHANGED <<pipeVars, camVars, clf, running, cap, trainVars, attendance, clock,
                   reqVars, histVars>>

\* -------------------------------------------------- run_pi.py: camera loop
\* mutant of the acquisition: the stream buffer is written before the None test
camera_get_frame_stores_none ==
    /\ cam.pc = "acquire"
    /\ IF ~running
       THEN /\ cam' = [cam EXCEPT !.pc = "stopped"]
            /\ UNCHANGED latest_frame
       ELSE \E ok \in BOOLEAN :
              /\ latest_frame' = ok
              /\ cam' = [cam EXCEPT !.pc = IF ok THEN "check" ELSE "reset"]
    /\ UNCHANGED <<pipeVars, nRecog, procVars, cap, trainVars, attendance, clock,
                   reqVars, histVars>>

\* camera_loop: while running: frame = get_single_frame(); a frame updates the
\* stream buffer, None sends the loop to the pkill of the capture helper; with
\* the flag down the loop, and the thread, end
camera_get_frame ==
    /\ cam.pc = "acquire"
    /\ IF ~running
       THEN /\ cam' = [cam EXCEPT !.pc = "stopped"]
            /\ UNCHANGED latest_frame
       ELSE \E ok \in BOOLEAN :
              IF ok
              THEN /\ latest_frame' = TRUE
                   /\ cam' = [cam EXCEPT !.pc = "check"]
              ELSE /\ cam' = [cam EXCEPT !.pc = "reset"]
                   /\ UNCHANGED latest_frame
    /\ UNCHANGED <<pipeVars, nRecog, procVars, cap, trainVars, attendance, clock,
                   reqVars, histVars>>

\* camera_loop: subprocess.run(["sudo", "pkill", "-9", "rpicam-vid"]); continue
camera_reset_helper ==
    /\ cam.pc = "reset"
    /\ cam' = [cam EXCEPT !.pc = "acquire"]
    /\ UNCHANGED <<pipeVars, latest_frame, nRecog, procVars, cap, trainVars,
                   attendance, clock, reqVars, histVars>>

\* camera_loop: if system_state == "SCANNING": perform_recognition(...)
camera_check_state ==
    /\ cam.pc = "check"
    /\ IF system_state = "SCANNING"
       THEN /\ cam' = [cam EXCEPT !.pc = "recognize", !.trig = nTrig - timers]
            /\ nRecog' = nRecog + 1
       ELSE /\ cam' = [cam EXCEPT !.pc = "acquire"]
            /\ UNCHANGED nRecog
    /\ UNCHANGED <<pipeVars, latest_frame, procVars, cap, trainVars, attendance,
                   clock, reqVars, histVars>>

\* perform_recognition, up to the call of process_attendance
perform_recognition(kind, sid, conf) ==
    /\ cam.pc = "recognize"
    /\   IF clf_is_None(clf)
         THEN \* clf is None: "Model not trained yet", attendance_unknown()
              /\ last_recognition_result' = Result("error", "none")
              /\ Deliver(Entry("pi", "untrained", "none", 0, Day(clock),
                                          Day(clock), FALSE, FALSE, FALSE, "error",
                                          "unknown"))
              /\ cam' = [cam EXCEPT !.pc = "to_idle"]
         ELSE IF emb_is_None(kind)
         THEN \* no detection, or no embedding: attendance_unknown()
              /\ last_recognition_result' = Result("failure", "none")
              /\ Deliver(Entry("pi", kind, "none", 0, Day(clock),
                                          Day(clock), FALSE, FALSE, FALSE, "failure",
                                          "unknown"))
              /\ cam' = [cam EXCEPT !.pc = "to_idle"]
         ELSE IF pi_accepts(conf)
         THEN /\ cam' = [cam EXCEPT !.pc = "pa_query", !.sid = sid, !.conf = conf]
              /\ UNCHANGED <<last_recognition_result, histVars>>
         ELSE \* low confidence: attendance_unknown()
              /\ last_recognition_result' = Result("failure", "none")
              /\ Deliver(Entry("pi", "face", sid, conf, Day(clock),
                                          Day(clock), FALSE, FALSE, FALSE, "failure",
                                          "unknown"))
              /\ cam' = [cam EXCEPT !.pc = "to_idle"]
    /\ UNCHANGED <<system_state, timers, trig_resp, nTrig, latest_frame, nRecog,
                   procVars, cap, trainVars, attendance, clock, reqVars>>

\* process_attendance: today = datetime.now().date(); the marked-today query and
\* the name lookup; the duplicate branch ends the decision
process_attendance_query ==
    /\ cam.pc = "pa_query"
    /\ LET today == Day(clock)
           truth == attendance[<<cam.sid, today>>] > 0
       IN IF marked_today(cam.sid, today)
          THEN /\ last_recognition_result' = Result("duplicate", cam.sid)
               /\ Deliver(Entry("pi", "face", cam.sid, cam.conf, today,
                                           today, truth, TRUE, FALSE, "duplicate",
                                           "duplicate"))
               /\ cam' = [cam EXCEPT !.pc = "to_idle"]
          ELSE /\ cam' = [cam EXCEPT !.pc = "pa_insert", !.day = today,
                                     !.existed = truth]
               /\ UNCHANGED <<last_recognition_result, histVars>>
    /\ UNCHANGED <<system_state, timers, trig_resp, nTrig, latest_frame, nRecog,
                   procVars, cap, trainVars, attendance, clock, reqVars>>

\* process_attendance: the INSERT and commit, the success result, attendance_success
process_attendance_insert ==
    /\ cam.pc = "pa_insert"
    /\ insert_attendance(cam.sid)
    /\ last_recognition_result' = Result("success", cam.sid)
    /\ Deliver(Entry("pi", "face", cam.sid, cam.conf, cam.day,
                                Day(clock), cam.existed, TRUE, TRUE, "success",
                                "success"))
    /\ cam' = [cam EXCEPT !.pc = "to_idle"]
    /\ UNCHANGED <<system_state, timers, trig_resp, nTrig, latest_frame, nRecog,
                   procVars, cap, trainVars, clock, reqVars>>

\* process_attendance: a statement on the database raises; the except branch
\* sets the error result, no feedback function is called
process_attendance_db_error ==
    /\ cam.pc \in {"pa_query", "pa_insert"}
    /\ last_recognition_result' = Result("error", "none")
    /\ Deliver(Entry("pi", "face", cam.sid, cam.conf, Day(clock), Day(clock),
                     cam.existed, cam.pc = "pa_insert", FALSE, "error", "none"))
    /\ cam' = [cam EXCEPT !.pc = "to_idle"]
    /\ UNCHANGED <<system_state, timers, trig_resp, nTrig, latest_frame, nRecog,
                   procVars, cap, trainVars, attendance, clock, reqVars>>

\* perform_recognition: the detection, the embedding or the prediction raises;
\* nothing in perform_recognition or camera_loop catches it, the thread ends
camera_raise ==
    /\ cam.pc = "recognize"
    /\ cam' = [cam EXCEPT !.pc = "dead"]
    /\ UNCHANGED <<pipeVars, latest_frame, nRecog, procVars, cap, trainVars, attendance,
                   clock, reqVars, histVars>>

\* mutant of the reset: the loop goes on without writing IDLE
camera_to_idle_skipped ==
    /\ cam.pc = "to_idle"
    /\ cam' = CamIdle
    /\ UNCHANGED <<system_state, last_recognition_result, timers, trig_resp, nTrig,
                   latest_frame, nRecog, procVars, cap, trainVars, attendance, clock,
                   reqVars, histVars>>

\* camera_loop, after perform_recognition: with state_lock: system_state = "IDLE"
camera_to_idle ==
    /\ cam.pc = "to_idle"
    /\ system_state' = "IDLE"
    /\ cam' = CamIdle
    /\ UNCHANGED <<last_recognition_result, timers, trig_resp, nTrig, latest_frame,
                   nRecog, procVars, cap, trainVars, attendance, clock, reqVars, histVars>>

\* ------------------------------------------------- app.py: recognize_face
\* the cooldown key of a request: the sentinel for Unknown, else the identity
ReqKey(q) == IF q.status = "unknown" THEN "UNKNOWN" ELSE q.sid

\* the response of request q, fb being the feedback function it called
ReqEntry(q, fb) ==
    Entry("app", q.kind, q.sid, q.conf, q.day, q.recDay, q.existed, q.queried,
          q.inserted, q.status, fb)

\* recognize_face, up to the threshold test: no image and no model end the
\* request here; no embedding and low confidence go to the Unknown call site
recognize_face_begin(r, kind, sid, conf) ==
    /\ req[r].pc = "idle"
    /\ nReq < MaxRequests
    /\ nReq' = nReq + 1
    /\   LET now == clock
             today == Day(clock)
         IN IF kind = "noimage"
            THEN /\ Deliver(Entry("app", kind, "none", 0, today, today,
                                  FALSE, FALSE, FALSE, "error", "none"))
                 /\ UNCHANGED req
            ELSE IF emb_is_None(kind)
            THEN /\ req' = [req EXCEPT ![r] = [ReqIdle EXCEPT !.pc = "gate",
                                               !.kind = kind, !.now = now,
                                               !.day = today, !.recDay = today,
                                               !.status = "unknown"]]
                 /\ UNCHANGED histVars
            ELSE IF clf_is_None(model_file)
            THEN /\ Deliver(Entry("app", "untrained", "none", 0, today,
                                  today, FALSE, FALSE, FALSE, "error", "none"))
                 /\ UNCHANGED req
            ELSE IF ~model_complete
            THEN /\ Deliver(Entry("app", "badmodel", "none", 0, today,
                                  today, FALSE, FALSE, FALSE, "fault", "none"))
                 /\ UNCHANGED req
            ELSE IF ~app_accepts(conf)
            THEN /\ req' = [req EXCEPT ![r] = [ReqIdle EXCEPT !.pc = "gate",
                                               !.kind = kind, !.sid = sid,
                                               !.conf = conf, !.now = now,
                                               !.day = today, !.recDay = today,
                                               !.status = "unknown",
                                               !.model = model_version]]
                 /\ UNCHANGED histVars
            ELSE /\ req' = [req EXCEPT ![r] = [ReqIdle EXCEPT !.pc = "query",
                                               !.kind = kind, !.sid = sid,
                                               !.conf = conf, !.now = now,
                                               !.model = model_version]]
                 /\ UNCHANGED histVars
    /\ UNCHANGED <<pipeVars, camVars, procVars, cap, trainVars, attendance, clock,
                   cooldown_tracker, fb_hist>>

\* recognize_face: the name lookup and the marked-today query (CURDATE()); a row
\* found sends the request to the Duplicate call site
recognize_face_query(r) ==
    /\ req[r].pc = "query"
    /\ LET today == Day(clock)
           truth == attendance[<<req[r].sid, today>>] > 0
       IN IF marked_today(req[r].sid, today)
          THEN req' = [req EXCEPT ![r].pc = "gate", ![r].day = today,
                                  ![r].recDay = today, ![r].existed = truth,
                                  ![r].queried = TRUE, ![r].status = "duplicate"]
          ELSE req' = [req EXCEPT ![r].pc = "insert", ![r].day = today,
                                  ![r].existed = truth, ![r].queried = TRUE]
    /\ UNCHANGED <<pipeVars, camVars, procVars, cap, trainVars, attendance, clock,
                   cooldown_tracker, fb_hist, nReq, histVars>>

\* mutant of the insert: the row is written only when the cooldown allows
recognize_face_insert_gated(r) ==
    /\ req[r].pc = "insert"
    /\ IF cooldown_allows(req[r].sid, req[r].now, "success")
       THEN insert_attendance(req[r].sid)
       ELSE UNCHANGED attendance
    /\ req' = [req EXCEPT ![r].pc = "gate", ![r].recDay = Day(clock),
                          ![r].inserted = cooldown_allows(req[r].sid, req[r].now,
                                                          "success"),
                          ![r].status = "success"]
    /\ UNCHANGED <<pipeVars, camVars, procVars, cap, trainVars, clock,
                   cooldown_tracker, fb_hist, nReq, histVars>>

\* recognize_face: the INSERT and commit; then the Success call site
recognize_face_insert(r) ==
    /\ req[r].pc = "insert"
    /\ insert_attendance(req[r].sid)
    /\ req' = [req EXCEPT ![r].pc = "gate", ![r].recDay = Day(clock),
                          ![r].inserted = TRUE, ![r].status = "success"]
    /\ UNCHANGED <<pipeVars, camVars, procVars, cap, trainVars, clock,
                   cooldown_tracker, fb_hist, nReq, histVars>>

\* recognize_face: a statement on the database raises; nothing in recognize_face
\* catches it, the server answers 500 (status "fault": not a decision)
recognize_face_db_error(r) ==
    /\ req[r].pc \in {"query", "insert"}
    /\ Deliver(ReqEntry([req[r] EXCEPT !.day = Day(clock), !.recDay = Day(clock),
                                       !.status = "fault"], "none"))
    /\ req' = [req EXCEPT ![r] = ReqIdle]
    /\ UNCHANGED <<pipeVars, camVars, procVars, cap, trainVars, attendance, clock,
                   cooldown_tracker, fb_hist, nReq>>

\* recognize_face, one of its four call sites: the cooldown test and, when it
\* allows, the call of the feedback function; when it denies, the response
recognize_face_gate(r) ==
    /\ req[r].pc = "gate"
    /\ LET q == req[r]
           key == ReqKey(q)
       IN IF cooldown_allows(key, q.now, q.status)
          THEN /\ fb_hist' = [fb_hist EXCEPT ![key] =
                                 [at |-> clock,
                                  soon |-> /\ @.at # NoTime
                                           /\ clock - @.at < COOLDOWN_SECONDS[q.status]]]
               /\ req' = [req EXCEPT ![r].pc = "record"]
               /\ UNCHANGED histVars
          ELSE /\ Deliver(ReqEntry(q, gated_feedback(key, q.now, q.status)))
               /\ req' = [req EXCEPT ![r] = ReqIdle]
               /\ UNCHANGED fb_hist
    /\ UNCHANGED <<pipeVars, camVars, procVars, cap, trainVars, attendance, clock,
                   cooldown_tracker, nReq>>

\* recognize_face, after the feedback function returned: cooldown_tracker[key] =
\* now, and the response
recognize_face_record(r) ==
    /\ req[r].pc = "record"
    /\ record_trigger_time(ReqKey(req[r]), req[r].now)
    /\ Deliver(ReqEntry(req[r], req[r].status))
    /\ req' = [req EXCEPT ![r] = ReqIdle]
    /\ UNCHANGED <<pipeVars, camVars, procVars, cap, trainVars, attendance, clock,
                   fb_hist, nReq>>

\* ------------------------------------------------------ app.py: training
TrainStatus(is_running, progress, message) ==
    [running |-> is_running, progress |-> progress, message |-> message]

\* what a job reported last (history)
Report(progress, message) == [progress |-> progress, message |-> message]

NoReport == Report(0, "none")

\* a thread slot.  total: len(student_dirs); processed: folders done; samples:
\* len(X); reported, wrote, outcome: history of the job
JobOff ==
    [pc |-> "off", total |-> 0, processed |-> 0, samples |-> 0,
     reported |-> NoReport, wrote |-> FALSE, outcome |-> "none"]

\* the job is between its launch and its termination
JobActive(j) == job[j].pc # "off"

\* progress_cb(p, m): write_train_status({"running": True, "progress": p, "message": m})
progress_cb(p, m) == train_status' = TrainStatus(TRUE, p, m)

\* threading.Thread(target=train_model_background, ...).start()
launch_training ==
    /\ nStarted < MaxJobs
    /\ nStarted' = nStarted + 1
    /\ job' = [job EXCEPT ![nStarted + 1] = [JobOff EXCEPT !.pc = "listdir"]]

\* /train_model, the whole handler
train_model_route ==
    /\ IF train_status.running
       THEN /\ train_resp' = "already running"
            /\ UNCHANGED <<job, nStarted>>
       ELSE /\ launch_training
            /\ train_resp' = "started"
    /\ UNCHANGED <<pipeVars, camVars, procVars, cap, model_file, model_complete,
                   model_version, train_status, attendance, clock, reqVars, histVars>>

\* /admin/train_trigger, the whole handler
admin_train_trigger(admin_logged_in) ==
    /\ IF ~admin_logged_in
       THEN /\ train_resp' = "unauthorized"
            /\ UNCHANGED <<job, nStarted>>
       ELSE IF train_status.running
       THEN /\ train_resp' = "already_running"
            /\ UNCHANGED <<job, nStarted>>
       ELSE /\ launch_training
            /\ train_resp' = "started"
    /\ UNCHANGED <<pipeVars, camVars, procVars, cap, model_file, model_complete,
                   model_version, train_status, attendance, clock, reqVars, histVars>>

\* ---------------------------------------- model.py: train_model_background
\* mutant of the percentage: rounded up
extraction_pct_ceil(processed, total_students) ==
    (processed * 80 + total_students - 1) \div total_students

\* int((processed / total_students) * 80)
extraction_pct(processed, total_students) == (processed * 80) \div total_students

\* mutant of the empty test: training goes on without data
no_training_data_never(samples) == FALSE

\* if len(X) == 0
no_training_data(samples) == samples = 0

\* student_dirs = [d for d in os.listdir(dataset_dir) if ...]
train_list_corpus(j, n) ==
    /\ job[j].pc = "listdir"
    /\ job' = [job EXCEPT ![j].pc = "extract", ![j].total = n]
    /\ UNCHANGED <<pipeVars, camVars, procVars, cap, model_file, model_complete,
                   model_version, train_status, train_resp, nStarted, attendance, clock, reqVars,
                   histVars>>

\* one identity folder: its images give found embeddings; processed += 1 and the
\* progress report
train_extract_folder(j, found) ==
    /\ job[j].pc = "extract"
    /\ job[j].processed < job[j].total
    /\ LET done == job[j].processed + 1
           total_students == IF job[j].total > 1 THEN job[j].total ELSE 1
           pct == extraction_pct(done, total_students)
           got == IF job[j].samples + found > MaxSamples
                  THEN MaxSamples ELSE job[j].samples + found
       IN /\ progress_cb(pct, "Processed")
          /\ job' = [job EXCEPT ![j].processed = done, ![j].samples = got,
                                ![j].reported = Report(pct, "Processed")]
    /\ UNCHANGED <<pipeVars, camVars, procVars, cap, model_file, model_complete,
                   model_version, train_resp, nStarted, attendance, clock, reqVars, histVars>>

\* after the folders: no data ends the job with its report; data goes to the fit
\* with the report of 85
train_check_data(j) ==
    /\ job[j].pc = "extract"
    /\ job[j].processed = job[j].total
    /\ IF no_training_data(job[j].samples)
       THEN /\ progress_cb(0, "No training data found")
            /\ job' = [job EXCEPT ![j].pc = "off", ![j].outcome = "empty",
                                  ![j].reported = Report(0, "No training data found")]
       ELSE /\ progress_cb(85, "Training RandomForest classifier...")
            /\ job' = [job EXCEPT ![j].pc = "fit",
                                  ![j].reported =
                                      Report(85, "Training RandomForest classifier...")]
    /\ UNCHANGED <<pipeVars, camVars, procVars, cap, model_file, model_complete,
                   model_version, train_resp, nStarted, attendance, clock, reqVars, histVars>>

\* clf.fit(X, y)
train_fit(j) ==
    /\ job[j].pc = "fit"
    /\ job' = [job EXCEPT ![j].pc = "open"]
    /\ UNCHANGED <<pipeVars, camVars, procVars, cap, model_file, model_complete,
                   model_version, train_status, train_resp, nStarted, attendance, clock, reqVars,
                   histVars>>

\* open(MODEL_PATH, "wb"): the file exists and is empty
train_open_model(j) ==
    /\ job[j].pc = "open"
    /\ model_file' = TRUE
    /\ model_complete' = FALSE
    /\ job' = [job EXCEPT ![j].pc = "dump", ![j].wrote = TRUE]
    /\ UNCHANGED <<pipeVars, camVars, procVars, cap, model_version, train_status,
                   train_resp, nStarted,
                   attendance, clock, reqVars, histVars>>

\* pickle.dump(clf, f) and the close of the file
train_dump_model(j) ==
    /\ job[j].pc = "dump"
    /\ model_complete' = TRUE
    /\ model_version' = model_version + 1
    /\ job' = [job EXCEPT ![j].pc = "report"]
    /\ UNCHANGED <<pipeVars, camVars, procVars, cap, model_file, train_status, train_resp,
                   nStarted, attendance, clock, reqVars, histVars>>

\* progress_callback(100, "Training complete"); the thread ends
train_report_complete(j) ==
    /\ job[j].pc = "report"
    /\ progress_cb(100, "Training complete")
    /\ job' = [job EXCEPT ![j].pc = "off", ![j].outcome = "complete",
                          ![j].reported = Report(100, "Training complete")]
    /\ UNCHANGED <<pipeVars, camVars, procVars, cap, model_file, model_complete,
                   model_version, train_resp, nStarted, attendance, clock, reqVars, histVars>>

\* an exception in the extraction, the fit or the writing of the model: nothing
\* in train_model_background catches it, the thread ends with its traceback
train_raise(j) ==
    /\ job[j].pc \in {"extract", "fit", "open", "dump"}
    /\ job' = [job EXCEPT ![j].pc = "off", ![j].outcome = "raised"]
    /\ UNCHANGED <<pipeVars, camVars, procVars, cap, model_file, model_complete,
                   model_version, train_status, train_resp, nStarted, attendance, clock, reqVars,
                   histVars>>

\* -------------------------------------------------------------------- time
\* midnight passes: the clock moves to the start of the next calendar day
next_day ==
    /\ (Day(clock) + 1) * DayLen <= MaxClock
    /\ clock' = (Day(clock) + 1) * DayLen
    /\ hist' = [i \in Ids |-> <<>>]
    /\ UNCHANGED <<pipeVars, camVars, procVars, cap, trainVars, attendance, reqVars, last>>

\* a second passes
tick ==
    /\ clock < MaxClock
    /\ clock' = clock + 1
    /\ hist' = IF Day(clock + 1) = Day(clock) THEN hist ELSE [i \in Ids |-> <<>>]
    /\ UNCHANGED <<pipeVars, camVars, procVars, cap, trainVars, attendance, reqVars, last>>

\* ---------------------------------------------------------- specifications
Init ==
    /\ system_state = "IDLE"
    /\ last_recognition_result = EmptyResult
    /\ timers = 0
    /\ trig_resp = "none"
    /\ cam = CamIdle
    /\ model_file \in BOOLEAN
    /\ model_complete = model_file
    /\ model_version = 0
    /\ clf = model_file
    /\ running = TRUE
    /\ exited = FALSE
    /\ train_status = TrainStatus(FALSE, 0, "Idle")
    /\ job = [j \in Jobs |-> JobOff]
    /\ train_resp = "none"
    /\ nStarted = 0
    /\ latest_frame = FALSE
    /\ cap = [c \in Caps |-> "off"]
    /\ attendance = [k \in Ids \X Days |-> 0]
    /\ clock = 0
    /\ req = [r \in Reqs |-> ReqIdle]
    /\ cooldown_tracker = [k \in Keys |-> NoTime]
    /\ last = NoDecision
    /\ hist = [i \in Ids |-> <<>>]
    /\ nTrig = 0
    /\ nRecog = 0
    /\ nReq = 0
    /\ fb_hist = [k \in Keys |-> NoCall]

\* the pipeline state machine of run_pi.py with its camera loop
Next ==
    \/ trigger_attendance
    \/ trigger_returned
    \/ set_scanning_state
    \/ \E c \in Caps : trigger_capture(c)
    \/ \E c \in Caps : capture_sequence_align(c)
    \/ \E c \in Caps : capture_sequence_idle(c)
    \/ camera_get_frame
    \/ camera_reset_helper
    \/ camera_check_state
    \/ \E kind \in FramesPi, sid \in Ids, conf \in ConfsPi :
         perform_recognition(kind, sid, conf)
    \/ process_attendance_query
    \/ process_attendance_insert
    \/ camera_to_idle
    \/ next_day

Spec == Init /\ [][Next]_vars

\* a further decision may begin
DecisionsLeft == nTrig + nReq < MaxDecisions

\* the deciders, recognize_face requests and the camera loop, interleaved, on
\* every kind of frame
NextDecide ==
    \/ DecisionsLeft /\ trigger_attendance
    \/ trigger_returned
    \/ set_scanning_state
    \/ camera_get_frame
    \/ camera_reset_helper
    \/ camera_check_state
    \/ \E kind \in FramesPi, sid \in Ids, conf \in ConfsPi :
         perform_recognition(kind, sid, conf)
    \/ process_attendance_query
    \/ process_attendance_insert
    \/ camera_to_idle
    \/ \E r \in Reqs, kind \in FramesApp, sid \in Ids, conf \in ConfsApp :
         DecisionsLeft /\ recognize_face_begin(r, kind, sid, conf)
    \/ \E r \in Reqs : recognize_face_query(r)
    \/ \E r \in Reqs : recognize_face_insert(r)
    \/ \E r \in Reqs : recognize_face_gate(r)
    \/ \E r \in Reqs : recognize_face_record(r)
    \/ next_day

SpecDecide == Init /\ [][NextDecide]_vars

\* the deciders one at a time: a decision starts only when no other decision
\* (a recognize_face request, or the camera loop's recognition) is in progress
CamDeciding == cam.pc \in {"recognize", "pa_query", "pa_insert"}

ReqDeciding(r) == req[r].pc # "idle"

NoRequest == \A r \in Reqs : ~ReqDeciding(r)

\* no trigger is being served: the pipeline rests in IDLE with no timer pending
PipelineQuiet ==
    /\ system_state = "IDLE"
    /\ timers = 0
    /\ trig_resp = "none"
    /\ ~CamDeciding
    /\ cam.pc # "to_idle"

NextSeq ==
    \/ NoRequest /\ trigger_attendance
    \/ trigger_returned
    \/ set_scanning_state
    \/ camera_get_frame
    \/ camera_reset_helper
    \/ camera_check_state
    \/ \E sid \in Ids, conf \in ConfsPi : perform_recognition("face", sid, conf)
    \/ process_attendance_query
    \/ process_attendance_insert
    \/ camera_to_idle
    \/ \E r \in Reqs, sid \in Ids, conf \in ConfsApp :
         NoRequest /\ PipelineQuiet /\ recognize_face_begin(r, "face", sid, conf)
    \/ \E r \in Reqs : recognize_face_query(r)
    \/ \E r \in Reqs : recognize_face_insert(r)
    \/ \E r \in Reqs : recognize_face_gate(r)
    \/ \E r \in Reqs : recognize_face_record(r)
    \/ next_day

SpecSeq == Init /\ [][NextSeq]_vars

\* recognize_face requests on every kind of upload, second by second
NextGate ==
    \/ \E r \in Reqs, kind \in FramesApp, sid \in Ids, conf \in ConfsApp :
         recognize_face_begin(r, kind, sid, conf)
    \/ \E r \in Reqs : recognize_face_query(r)
    \/ \E r \in Reqs : recognize_face_insert(r)
    \/ \E r \in Reqs : recognize_face_gate(r)
    \/ \E r \in Reqs : recognize_face_record(r)
    \/ tick

SpecGate == Init /\ [][NextGate]_vars

\* the deciders with their failures: database statements that raise, a
\* recognition that raises
NextFault ==
    \/ DecisionsLeft /\ trigger_attendance
    \/ trigger_returned
    \/ set_scanning_state
    \/ camera_get_frame
    \/ camera_reset_helper
    \/ camera_check_state
    \/ \E kind \in FramesPi, sid \in Ids, conf \in ConfsPi :
         perform_recognition(kind, sid, conf)
    \/ process_attendance_query
    \/ process_attendance_insert
    \/ process_attendance_db_error
    \/ camera_raise
    \/ camera_to_idle
    \/ \E r \in Reqs, sid \in Ids, conf \in ConfsApp :
         DecisionsLeft /\ recognize_face_begin(r, "face", sid, conf)
    \/ \E r \in Reqs : recognize_face_query(r)
    \/ \E r \in Reqs : recognize_face_insert(r)
    \/ \E r \in Reqs : recognize_face_db_error(r)
    \/ \E r \in Reqs : recognize_face_gate(r)
    \/ \E r \in Reqs : recognize_face_record(r)

SpecFault == Init /\ [][NextFault]_vars

\* the pipeline from trigger to decision, with the failures of the recognition
NextLive ==
    \/ trigger_attendance
    \/ trigger_returned
    \/ set_scanning_state
    \/ camera_get_frame
    \/ camera_reset_helper
    \/ camera_check_state
    \/ \E kind \in FramesPi, sid \in Ids, conf \in ConfsPi :
         perform_recognition(kind, sid, conf)
    \/ process_attendance_query
    \/ process_attendance_insert
    \/ process_attendance_db_error
    \/ camera_raise
    \/ camera_to_idle

\* a step of the camera thread
CameraStep ==
    \/ camera_get_frame
    \/ camera_reset_helper
    \/ camera_check_state
    \/ \E kind \in FramesPi, sid \in Ids, conf \in ConfsPi :
         perform_recognition(kind, sid, conf)
    \/ process_attendance_query
    \/ process_attendance_insert
    \/ process_attendance_db_error
    \/ camera_raise
    \/ camera_to_idle

\* a started Timer fires, the camera thread runs while it lives, and the camera
\* does not fail for ever: some acquisition yields a frame
FairLive ==
    /\ WF_vars(set_scanning_state)
    /\ WF_vars(CameraStep)
    /\ SF_vars(camera_get_frame /\ cam'.pc = "check")

SpecLive == Init /\ [][NextLive]_vars /\ FairLive

\* the pipeline and the shutdown signal: nothing runs once the process exited
NextShutdown ==
    \/ /\ ~exited
       /\ \/ trigger_attendance
          \/ trigger_returned
          \/ set_scanning_state
          \/ camera_get_frame
          \/ camera_reset_helper
          \/ camera_check_state
          \/ \E kind \in FramesPi, sid \in Ids, conf \in ConfsPi :
               perform_recognition(kind, sid, conf)
          \/ process_attendance_query
          \/ process_attendance_insert
          \/ camera_to_idle
    \/ shutdown_handler
    \/ process_exit

SpecShutdown == Init /\ [][NextShutdown]_vars

\* a training job next to the recognition requests of app.py, MaxDecisions
\* jobs and requests in all
ReloadLeft == nStarted + nReq < MaxDecisions

NextReload ==
    \/ ReloadLeft /\ train_model_route
    \/ \E j \in Jobs, n \in Folders : train_list_corpus(j, n)
    \/ \E j \in Jobs, found \in 0..1 : train_extract_folder(j, found)
    \/ \E j \in Jobs : train_check_data(j)
    \/ \E j \in Jobs : train_fit(j)
    \/ \E j \in Jobs : train_open_model(j)
    \/ \E j \in Jobs : train_dump_model(j)
    \/ \E j \in Jobs : train_report_complete(j)
    \/ /\ ReloadLeft
       /\ \E r \in Reqs, kind \in FramesApp, sid \in Ids, conf \in ConfsApp :
            recognize_face_begin(r, kind, sid, conf)
    \/ \E r \in Reqs : recognize_face_query(r)
    \/ \E r \in Reqs : recognize_face_insert(r)
    \/ \E r \in Reqs : recognize_face_gate(r)
    \/ \E r \in Reqs : recognize_face_record(r)

SpecReload == Init /\ [][NextReload]_vars

\* the training routes and the training threads
NextTrain ==
    \/ train_model_route
    \/ \E admin_logged_in \in BOOLEAN : admin_train_trigger(admin_logged_in)
    \/ \E j \in Jobs, n \in Folders : train_list_corpus(j, n)
    \/ \E j \in Jobs, found \in 0..1 : train_extract_folder(j, found)
    \/ \E j \in Jobs : train_check_data(j)
    \/ \E j \in Jobs : train_fit(j)
    \/ \E j \in Jobs : train_open_model(j)
    \/ \E j \in Jobs : train_dump_model(j)
    \/ \E j \in Jobs : train_report_complete(j)
    \/ \E j \in Jobs : train_raise(j)

SpecTrain == Init /\ [][NextTrain]_vars

\* ------------------------------------------------------------------ claims
Threshold(site) == IF site = "app" THEN THRESHOLD_APP ELSE THRESHOLD_PI

UnknownStatus(site) == IF site = "app" THEN "unknown" ELSE "failure"

\* a step of trigger_attendance: the only steps that produce a response
TriggerStep == trig_resp = "none" /\ trig_resp' # "none"

CaptureInProgress(c) == cap[c] = "capturing"

\* C1: a trigger_attendance call made while system_state is not IDLE answers
\* "busy" and leaves system_state, last_recognition_result and the pending
\* timers as they were.
C1_BusyRejected ==
    [][(TriggerStep /\ system_state # "IDLE")
        => /\ trig_resp' = "busy"
           /\ system_state' = system_state
           /\ last_recognition_result' = last_recognition_result
           /\ timers' = timers
           /\ nTrig' = nTrig]_vars

\* a trigger was accepted, its timer is still pending, and a second call got "busy"
C1_Witness ==
    /\ trig_resp = "busy"
    /\ nTrig = 1
    /\ timers = 1
    /\ system_state = "ALIGNING"

\* C2: a trigger_attendance call made while system_state is IDLE sets ALIGNING,
\* empties last_recognition_result and schedules exactly one timer, in one step.
C2_TriggerAccepted ==
    [][(TriggerStep /\ system_state = "IDLE")
        => /\ trig_resp' = "aligning"
           /\ system_state' = "ALIGNING"
           /\ last_recognition_result' = EmptyResult
           /\ timers' = timers + 1]_vars

\* a second trigger was accepted after a scan had left a result, and cleared it
C2_Witness ==
    /\ trig_resp = "aligning"
    /\ nTrig = 2
    /\ last.site = "pi"
    /\ system_state = "ALIGNING"
    /\ last_recognition_result = EmptyResult

\* C3: perform_recognition is never invoked more often than trigger_attendance
\* was accepted.
C3_RecognitionPerTrigger == nRecog <= nTrig

\* every accepted trigger has had its recognition attempt
C3_Witness == nRecog = nTrig /\ nRecog >= 2

\* C4: system_state leaves SCANNING only by the camera loop's reset to IDLE,
\* taken when the one recognition of the episode has recorded its decision.
C4_EpisodeOneDecision ==
    [][(system_state = "SCANNING" /\ system_state' # "SCANNING")
        => (system_state' = "IDLE" /\ cam.pc = "to_idle")]_vars

\* C5: no capture_sequence is between its write of ALIGNING and its write of
\* IDLE while system_state is SCANNING or perform_recognition is executing.
C5_CaptureExcludesScanning ==
    \A c \in Caps :
        CaptureInProgress(c) => (system_state # "SCANNING" /\ ~CamDeciding)

C7_OneRecordConcurrent ==
    \A sid \in Ids :
        /\ \A d \in Days : attendance[<<sid, d>>] <= 1
        /\ \A j \in DOMAIN hist[sid] : j > 1 => hist[sid][j].status = "duplicate"

C9_BelowThresholdUnknown ==
    (last.kind = "face" /\ last.conf < Threshold(last.site)) =>
        /\ last.status = UnknownStatus(last.site)
        /\ ~last.queried
        /\ ~last.inserted

\* the camera loop decided Unknown on 0.34 after recognize_face had decided
\* Unknown on a low confidence of its own
C9_Witness ==
    /\ last.site = "pi"
    /\ last.kind = "face"
    /\ last.conf = THRESHOLD_PI - 1
    /\ last.status = "failure"
    /\ cooldown_tracker["UNKNOWN"] # NoTime

\* C10: at both call sites a confidence equal to the threshold is accepted and
\* one just below it is Unknown.
C10_ThresholdInclusive ==
    last.kind = "face" =>
        /\ last.conf = Threshold(last.site) => Accepted(last)
        /\ last.conf = Threshold(last.site) - 1 => last.status = UnknownStatus(last.site)

\* C11: a decision on a frame in which no face was detected, or from which no
\* embedding could be extracted, is Unknown (status unknown / failure): the
\* classifier was not invoked (the decision carries no predicted label), the table
\* was not queried and nothing was inserted; and no request on such a frame is at
\* the query or the insert.
C11_NoFaceUnknown ==
    /\ last.kind \in {"noface", "noembed"} =>
          /\ last.status = UnknownStatus(last.site)
          /\ last.sid = "none"
          /\ ~last.queried
          /\ ~last.inserted
    /\ \A r \in Reqs :
          req[r].kind = "noface" =>
              /\ req[r].pc \in {"gate", "record"}
              /\ req[r].sid = "none"
              /\ req[r].status = "unknown"

\* a trained recogniser answered Unknown to an upload without a face, after the
\* camera loop had failed on a frame of its own
C11_Witness ==
    /\ model_file
    /\ last.site = "app"
    /\ last.kind = "noface"
    /\ last.status = "unknown"
    /\ last_recognition_result.status = "failure"


\* the cooldown windows as the contract states them, in seconds
ClaimedWindow(kind) == IF kind = "unknown" THEN 3 ELSE 5

\* request r performs the cooldown test of its call site in this step
GateStep(r) == req[r].pc = "gate" /\ req'[r].pc # "gate"

\* that test allowed the feedback call
GateAllowed(r) == req'[r].pc = "record"

C13_RecordOnlyWhenAllowed ==
    [][/\ \A r \in Reqs :
            (GateStep(r) /\ ~GateAllowed(r)) => cooldown_tracker' = cooldown_tracker
       /\ cooldown_tracker' # cooldown_tracker =>
            \E r \in Reqs :
                /\ req[r].pc = "record"
                /\ cooldown_tracker' =
                     [cooldown_tracker EXCEPT ![ReqKey(req[r])] = req[r].now]]_vars

\* a Duplicate was denied its feedback inside the window: the identity's entry
\* still holds the earlier time and no other key has an entry
C13_Witness ==
    /\ last.site = "app"
    /\ last.status = "duplicate"
    /\ last.fb = "none"
    /\ cooldown_tracker[last.sid] # NoTime
    /\ cooldown_tracker[last.sid] < clock
    /\ \A k \in Keys \ {last.sid} : cooldown_tracker[k] = NoTime

C15_NoFeedbackTwiceInWindow == \A k \in Keys : ~fb_hist[k].soon


\* the cooldown key of a delivered decision
EntryKey(e) == IF Accepted(e) THEN e.sid ELSE "UNKNOWN"

\* C16: a feedback call of the camera loop's recognition follows an allowed
\* cooldown test for its key, which recorded a time for that key.
C16_CameraFeedbackGated ==
    (last.site = "pi" /\ last.fb # "none") =>
        /\ cooldown_tracker[EntryKey(last)] # NoTime
        /\ cooldown_tracker[EntryKey(last)] <= clock


\* a step in which job j ends
JobEnds(j) == job[j].pc # "off" /\ job'[j].pc = "off"

\* C17: at most one train_model_background thread is between its launch and its
\* termination.
C17_SingleFlight == Cardinality({j \in Jobs : JobActive(j)}) <= 1

\* C18: the step that ends a job after the model was written leaves the status
\* {running: false, progress: 100, message: "Training complete"}.
C18_CompletionFinalizes ==
    [][\A j \in Jobs :
         (JobEnds(j) /\ job'[j].outcome = "complete") =>
            train_status' = TrainStatus(FALSE, 100, "Training complete")]_vars

\* C19: the step in which an exception ends a job leaves a terminal status: not
\* running, progress 0.
C19_ExceptionFinalizes ==
    [][\A j \in Jobs :
         (JobEnds(j) /\ job'[j].outcome = "raised") =>
            /\ ~train_status'.running
            /\ train_status'.progress = 0]_vars

\* C20: a job that collected no sample never writes the model file, and one
\* that ended on the empty test reported progress 0 with the message
\* "No training data found" last.
C20_EmptyCorpusKeepsModel ==
    \A j \in Jobs :
        /\ job[j].samples = 0 => ~job[j].wrote
        /\ job[j].outcome = "empty" =>
              /\ job[j].samples = 0
              /\ job[j].reported = Report(0, "No training data found")

\* a job went through two identity folders without a usable face and ended, a
\* model file being there from before
C20_Witness ==
    \E j \in Jobs :
        /\ job[j].outcome = "empty"
        /\ job[j].processed = 2
        /\ ~job[j].wrote
        /\ model_file
        /\ model_complete


\* C21: the file at MODEL_PATH, when it exists, holds a whole model: never a
\* partially written one.
C21_ModelNeverPartial == model_file => model_complete


\* a decision on a recognised face that met a failure of the database
DbFailed(e) == e.kind = "face" /\ e.status \in {"error", "fault"}

\* C22: a decision that met a failure of the database is an Error decision, a
\* well-formed result and not a raw fault, with no row inserted.
C22_PersistenceFailureIsError ==
    DbFailed(last) =>
        /\ last.status = "error"
        /\ ~last.inserted

\* C23: a failure raised inside the recognition does not end the camera loop.
C23_LoopSurvivesFailure == cam.pc # "dead"


\* C24: after an accepted trigger (system_state is ALIGNING) the state passes to
\* SCANNING and, with the timer firing and the camera loop running, returns to
\* IDLE.
C24_ReturnsToIdle == (system_state = "ALIGNING") ~> (system_state = "IDLE")


\* C25: when the process has exited, the camera loop has ended at its loop test
\* or stands at the top of an iteration: no iteration was cut while in flight.
C25_ShutdownFinishesIteration == exited => cam.pc \in {"stopped", "acquire"}


\* C26: every prediction of a recognition request uses the model that was
\* there at boot (version 0): no training job refreshes the model a request
\* predicts with, and the code has no reload call that could.
C26_NoAutomaticRefresh ==
    \A r \in Reqs : (req[r].pc # "idle" /\ req[r].kind = "face") => req[r].model = 0


\* C27: every decision of the camera loop's pipeline emitted one feedback
\* event, of the kind of the decision: success, duplicate, unknown for a
\* failure; an error decision emitted one too, and not the unknown-face one.
C27_OneMatchingFeedback ==
    last.site = "pi" =>
        /\ last.fb # "none"
        /\ last.status = "success" => last.fb = "success"
        /\ last.status = "duplicate" => last.fb = "duplicate"
        /\ last.status = "failure" => last.fb = "unknown"
        /\ last.status = "error" => last.fb # "unknown"


\* a step on which job j reports a progress value
ReportStep(j) == job'[j].reported # job[j].reported

\* p is floor(k / N * 80)
IsFloorOf80(p, k, N) == p * N <= 80 * k /\ 80 * k < (p + 1) * N

\* C28: the values a training job reports: floor(k / N * 80) after the k-th of
\* N folders; with samples, 85 on the way to the fit and 100 "Training
\* complete" after the dump; each in 0..100, and 100 only from a job that
\* wrote the model file, after a model was dumped.
C28_ProgressValues ==
    [][\A j \in Jobs :
         ReportStep(j) =>
             LET p == job'[j].reported.progress
                 m == job'[j].reported.message
             IN /\ train_status' = TrainStatus(TRUE, p, m)
                /\ p \in 0..100
                /\ job'[j].processed # job[j].processed =>
                       IsFloorOf80(p, job'[j].processed, job[j].total)
                /\ (job'[j].processed = job[j].processed /\ job[j].pc = "extract"
                        /\ job[j].samples > 0) =>
                       p = 85 /\ job'[j].pc = "fit"
                /\ job[j].pc = "report" => p = 100 /\ m = "Training complete"
                /\ p = 100 => job[j].pc = "report" /\ job[j].wrote /\ model_version > 0
      ]_vars

\* a job over three folders, which reported 26, 53 and 80, completed
C28_Witness ==
    \E j \in Jobs :
        /\ job[j].total = 3
        /\ job[j].reported = Report(100, "Training complete")
        /\ model_version > 0


\* the camera loop takes the branch of a failed acquisition, or leaves it
FailedAcquisitionStep ==
    \/ cam.pc = "acquire" /\ cam'.pc = "reset"
    \/ cam.pc = "reset" /\ cam' # cam

\* C29: a failed acquisition is a None result, not an exception: the loop goes
\* to the reset of the capture helper and from there to the next acquisition,
\* and neither step changes latest_frame, system_state or
\* last_recognition_result, nor counts as a recognition: a pending SCANNING
\* stays pending.
C29_FailedAcquisitionKeepsState ==
    [][FailedAcquisitionStep =>
           /\ cam.pc = "reset" => cam'.pc = "acquire"
           /\ UNCHANGED <<latest_frame, system_state, last_recognition_result, nRecog>>
      ]_vars

\* an acquisition failed while a scan is pending and a frame is in the buffer
C29_Witness == cam.pc = "reset" /\ system_state = "SCANNING" /\ latest_frame


\* with no model loaded nothing is on the way to a prediction's query or insert
NoClassifierUse ==
    /\ ~clf => cam.pc \notin {"pa_query", "pa_insert"}
    /\ ~model_file =>
           \A r \in Reqs : req[r].pc \notin {"query", "insert"} /\ req[r].sid = "none"

\* C30: with no model loaded the classifier is not used.  In the camera loop
\* the attempt ends in the error result, without a prediction, a query or an
\* insert, and the loop goes on to put the state back to IDLE; a request that
\* loaded no model ends at once in the error decision, without an insert.
C30_UntrainedIsError ==
    /\ []NoClassifierUse
    /\ [][/\ (cam.pc = "recognize" /\ ~clf /\ cam' # cam) =>
                 /\ cam'.pc = "to_idle"
                 /\ last_recognition_result'.status = "error"
                 /\ last'.site = "pi" /\ last'.status = "error" /\ last'.sid = "none"
                 /\ ~last'.queried /\ ~last'.inserted
                 /\ attendance' = attendance
          /\ (cam.pc = "to_idle" /\ cam' # cam) => system_state' = "IDLE"
          /\ (~model_file /\ nReq' # nReq) =>
                 /\ attendance' = attendance
                 /\ req' = req =>
                        /\ last'.site = "app" /\ last'.status = "error"
                        /\ last'.sid = "none" /\ ~last'.inserted
         ]_vars

\* an untrained camera attempt ended and the state is back to IDLE; a request
\* was answered "Not trained"
C30_Witness ==
    /\ ~clf
    /\ last_recognition_result.status = "error"
    /\ system_state = "IDLE"
    /\ cam = CamIdle
    /\ last.site = "app"
    /\ last.kind = "untrained"


\* the Timer's callback runs: it is the one step that takes a timer away
TimerFires == timers' = timers - 1

\* C31: whenever set_scanning_state fires, system_state is ALIGNING before the
\* step and SCANNING after it, and no other step sets SCANNING.
C31_DeferredTransition ==
    [][/\ TimerFires => system_state = "ALIGNING" /\ system_state' = "SCANNING"
       /\ (system_state # "SCANNING" /\ system_state' = "SCANNING") => TimerFires
      ]_vars


\* the camera loop's recognition attempt records its decision
DecisionRecorded ==
    /\ cam.pc \in {"recognize", "pa_query", "pa_insert"}
    /\ cam'.pc = "to_idle"

\* C32: a decision is recorded in last_recognition_result only by the attempt
\* that the deferred transition of the latest accepted trigger started; with
\* the clearing at each accepted trigger, the polled result is empty from the
\* trigger to that decision and shows no decision of an earlier scan.
C32_ResultOfLatestTrigger ==
    [][DecisionRecorded =>
           /\ cam.trig = nTrig
           /\ last_recognition_result = EmptyResult
      ]_vars


\* some capture_sequence is between its write of ALIGNING and its write of IDLE
SomeCaptureInProgress == \E c \in Caps : CaptureInProgress(c)

\* C33: while a capture_sequence is in progress system_state is not IDLE, and
\* every trigger_attendance handled in that interval is answered busy.
C33_CaptureBlocksTrigger ==
    /\ [](SomeCaptureInProgress => system_state # "IDLE")
    /\ [][(SomeCaptureInProgress /\ TriggerStep) => trig_resp' = "busy"]_vars


\* C34: within one training job the progress value of a report is never below
\* the value of the job's report before it.
C34_ProgressNeverDecreases ==
    [][\A j \in Jobs :
         ReportStep(j) => job'[j].reported.progress >= job[j].reported.progress
      ]_vars

====
